---- MODULE Spec2Model ----
(***************************************************************************)
(* Model of main.py, the Purdue Engineering Employment Report: a Streamlit *)
(* script that is executed top to bottom, and executed again from the top  *)
(* on every rerun inside the same Python process.                          *)
(*                                                                         *)
(* Abstractions, all stated where they are made:                           *)
(*   - NumPy's global generator is a deterministic stream of raw words;    *)
(*     seeding selects a position in it, every variate consumes one word.  *)
(*     The stream itself is arbitrary (chosen in Init) and cyclic.         *)
(*   - float64 values are exact rationals [n |-> num, d |-> den], d > 0;   *)
(*     the drawn samples lie on the integer grid.                          *)
(*   - the category lists are prefixes of the literals of the source, and  *)
(*     n_obs is NObs.                                                      *)
(***************************************************************************)
EXTENDS Integers, Sequences, FiniteSets, TLC

(* ------------------------------ bounds -------------------------------- *)
MaxCompanies == 2
MaxJobs == 2
NObs == 2
Period == 2
WordMod == 256

(* ------------------------- program constants -------------------------- *)
SeedValue == 42

RawWords == {0, WordMod \div 2, WordMod - 1}

ReferenceCompanies ==
  << "Google", "Microsoft", "Boeing", "General Electric", "Apple",
     "Lockheed Martin", "Northrop Grumman", "Amazon", "IBM", "Intel" >>

ReferenceJobTitles ==
  << [job |-> "Software Engineer",
      items |-> << "Python", "Java", "C++", "SQL", "JavaScript" >>],
     [job |-> "Data Scientist",
      items |-> << "Python", "R", "SQL", "Machine Learning", "Data Visualization" >>],
     [job |-> "Aerospace Engineer",
      items |-> << "CAD", "Aerodynamics", "Materials", "Systems Engineering",
                   "Flight Dynamics" >>],
     [job |-> "Electrical Engineer",
      items |-> << "Circuit Design", "Embedded Systems", "Signal Processing",
                   "MATLAB", "VHDL" >>],
     [job |-> "Mechanical Engineer",
      items |-> << "CAD", "Thermal Systems", "Materials", "Finite Element Analysis",
                   "Dynamics" >>] >>

ReferenceMajorsOptions ==
  << [job |-> "Software Engineer",
      items |-> << "Computer Engineering", "Software Engineering",
                   "Electrical Engineering" >>],
     [job |-> "Data Scientist",
      items |-> << "Computer Engineering", "Electrical Engineering", "Mathematics",
                   "Statistics" >>],
     [job |-> "Aerospace Engineer",
      items |-> << "Aerospace Engineering", "Mechanical Engineering",
                   "Materials Science" >>],
     [job |-> "Electrical Engineer",
      items |-> << "Electrical Engineering", "Computer Engineering", "Physics" >>],
     [job |-> "Mechanical Engineer",
      items |-> << "Mechanical Engineering", "Aerospace Engineering",
                   "Industrial Engineering" >>] >>

Min(a, b) == IF a < b THEN a ELSE b

\* The category lists a run may be configured with: prefixes of the literals.
CompanyLists ==
  { SubSeq(ReferenceCompanies, 1, n) :
      n \in 1..Min(MaxCompanies, Len(ReferenceCompanies)) }

JobCounts == 1..Min(MaxJobs, Len(ReferenceJobTitles))

(* -------------------------- the statements ---------------------------- *)
\* main.py as the sequence of its top-level statements, in file order.
MainPy ==
  << [op |-> "set_page_config", arg |-> "",          line |-> 8],
     [op |-> "title",           arg |-> "",          line |-> 11],
     [op |-> "markdown",        arg |-> "intro",     line |-> 12],
     [op |-> "seed",            arg |-> "",          line |-> 25],
     [op |-> "graduates",       arg |-> "",          line |-> 26],
     [op |-> "companies_data",  arg |-> "",          line |-> 27],
     [op |-> "skillset_records", arg |-> "",         line |-> 41],
     [op |-> "skill_loop",      arg |-> "",          line |-> 42],
     [op |-> "skillset_data",   arg |-> "",          line |-> 46],
     [op |-> "majors_records",  arg |-> "",          line |-> 57],
     [op |-> "major_loop",      arg |-> "",          line |-> 58],
     [op |-> "majors_data",     arg |-> "",          line |-> 62],
     [op |-> "header",          arg |-> "1",         line |-> 69],
     [op |-> "figure",          arg |-> "fig_companies", line |-> 70],
     [op |-> "update_traces",   arg |-> "fig_companies", line |-> 74],
     [op |-> "plotly_chart",    arg |-> "fig_companies", line |-> 75],
     [op |-> "header",          arg |-> "2",         line |-> 78],
     [op |-> "figure",          arg |-> "fig_skills", line |-> 79],
     [op |-> "plotly_chart",    arg |-> "fig_skills", line |-> 82],
     [op |-> "header",          arg |-> "3",         line |-> 85],
     [op |-> "figure",          arg |-> "fig_majors", line |-> 86],
     [op |-> "plotly_chart",    arg |-> "fig_majors", line |-> 88],
     [op |-> "header",          arg |-> "4",         line |-> 91],
     [op |-> "heatmap_data",    arg |-> "",          line |-> 92],
     [op |-> "figure",          arg |-> "fig_heatmap", line |-> 93],
     [op |-> "plotly_chart",    arg |-> "fig_heatmap", line |-> 97],
     [op |-> "header",          arg |-> "5",         line |-> 102],
     [op |-> "markdown",        arg |-> "scenario",  line |-> 104],
     [op |-> "seed",            arg |-> "",          line |-> 112],
     [op |-> "skill_score",     arg |-> "",          line |-> 114],
     [op |-> "graduates_synthetic", arg |-> "",      line |-> 116],
     [op |-> "causal_data",     arg |-> "",          line |-> 117],
     [op |-> "X",               arg |-> "",          line |-> 123],
     [op |-> "model",           arg |-> "",          line |-> 124],
     [op |-> "subheader",       arg |-> "",          line |-> 127],
     [op |-> "text",            arg |-> "summary",   line |-> 128],
     [op |-> "figure",          arg |-> "fig_reg",   line |-> 131],
     [op |-> "reg_line",        arg |-> "",          line |-> 135],
     [op |-> "add_traces",      arg |-> "fig_reg",   line |-> 136],
     [op |-> "plotly_chart",    arg |-> "fig_reg",   line |-> 137],
     [op |-> "header",          arg |-> "6",         line |-> 142],
     [op |-> "recommendation",  arg |-> "",          line |-> 143],
     [op |-> "markdown",        arg |-> "footer",    line |-> 157] >>

\* main.py with the regression chart presented before the fitted line is
\* added to it (lines 136 and 137 exchanged).
ProgramChartBeforeLine ==
  LET i == CHOOSE k \in DOMAIN MainPy : MainPy[k].op = "add_traces"
  IN [k \in DOMAIN MainPy |->
        IF k = i THEN MainPy[i + 1] ELSE IF k = i + 1 THEN MainPy[i] ELSE MainPy[k]]

\* main.py without the second np.random.seed(42) (line 112).
ProgramWithoutReseed ==
  LET Keep(st) == ~(st.op = "seed" /\ st.line = 112)
  IN SelectSeq(MainPy, Keep)

\* The statements the interpreter executes.
Program == MainPy

\* One past the last statement: the script has run to its end.
Done == Len(Program) + 1

\* The statements that call into Streamlit and so reach the presentation
\* surface.
PresentationOps ==
  { "set_page_config", "title", "markdown", "header", "subheader", "text",
    "plotly_chart", "recommendation" }

\* The statements that call into Streamlit, Plotly or statsmodels: the calls
\* that raise when the library rejects their arguments.  Nothing in main.py
\* catches an exception.
LibraryOps ==
  PresentationOps \cup { "figure", "update_traces", "add_traces", "heatmap_data",
                         "X", "model" }

RECURSIVE HeadersUpTo(_, _)
HeadersUpTo(prog, i) ==
  IF i = 0 THEN 0
  ELSE HeadersUpTo(prog, i - 1) + (IF prog[i].op = "header" THEN 1 ELSE 0)

\* The report section statement i belongs to: the number of st.header calls
\* up to and including it (0: the page preamble).
SectionOf(i) == HeadersUpTo(Program, i)

VARIABLES
  companies, job_titles, majors_options,   \* the category lists of this run
  stream, rng,                             \* np.random's global generator
  pc, error,                               \* statement to execute; uncaught exception
  defined,                                 \* names bound in the module namespace
  graduates, companies_data,
  skillset_records, skillset_data,
  majors_records, majors_data,
  loop,                                    \* cursor of the running nested for loop
  heatmap_data,
  skill_score, graduates_synthetic, causal_data,
  X, model, reg_line,
  figs,                                    \* the Plotly figures, by variable name
  rendered,                                \* the calls the presentation surface received
  prev                                     \* what the previous run of the script left

config == << companies, job_titles, majors_options >>
generator == << stream, rng >>
tables == << companies_data, skillset_data, majors_data, causal_data >>
gen_vars == << graduates, skillset_records, majors_records, loop,
               skill_score, graduates_synthetic >>
fit_vars == << X, model, reg_line >>
vars == << companies, job_titles, majors_options, stream, rng, pc, error, defined,
           graduates, companies_data, skillset_records, skillset_data,
           majors_records, majors_data, loop, heatmap_data, skill_score,
           graduates_synthetic, causal_data, X, model, reg_line, figs, rendered,
           prev >>

(* ------------------------- numpy.random ------------------------------- *)
\* np.random.seed(s): the generator state is a function of the seed alone.
SeedState(s) == s % Period

\* The next n raw words of the stream, from generator state r.
Words(r, n) == [i \in 1..n |-> stream[(r + i - 1) % Period]]

\* The generator state after n variates drawn from state r.
Advanced(r, n) == (r + n) % Period

\* An integer of [low, high], high included (random.randint's reading).
randint_inclusive(raw, low, high) == low + (raw * (high - low + 1)) \div WordMod

\* np.random.randint(low, high): an integer of [low, high), high excluded.
randint(raw, low, high) == low + (raw * (high - low)) \div WordMod

\* np.random.uniform(low, high): low + (high - low) * u, u in [0, 1).
uniform(raw, low, high) == low + (raw * (high - low)) \div WordMod

\* np.random.normal(loc, scale): loc + scale * z; z is cut to [-1, 1].
normal(raw, loc, scale) ==
  loc + (scale * (2 * raw - (WordMod - 1))) \div (WordMod - 1)

(* --------------------------- arithmetic -------------------------------- *)
Rat(num, den) == [n |-> num, d |-> den]

RatAdd(a, b) ==
  IF a.d = b.d THEN Rat(a.n + b.n, a.d) ELSE Rat(a.n * b.d + b.n * a.d, a.d * b.d)

RatMulInt(a, k) == Rat(a.n * k, a.d)

\* a < b for rationals of one denominator (every fitted value of a fit has
\* the denominator of its coefficients).
RatLess(a, b) == a.d = b.d /\ a.n < b.n

RatPositive(a) == a.n > 0

RECURSIVE Sum(_)
Sum(s) == IF s = << >> THEN 0 ELSE Head(s) + Sum(Tail(s))

Pow10(p) == IF p = 0 THEN 1 ELSE IF p = 1 THEN 10 ELSE IF p = 2 THEN 100 ELSE 1000

\* format(value, ".<places>f"): value rounded to the nearest multiple of
\* 10^-places, ties to even, printed with exactly that many decimals.  The
\* text is represented by its digits (the multiple) and its places.
FormatFixed(r, places) ==
  LET scaled == r.n * Pow10(places)
      q == scaled \div r.d
      rem == scaled - q * r.d
      up == \/ 2 * rem > r.d
            \/ 2 * rem = r.d /\ q % 2 = 1
  IN [digits |-> IF up THEN q + 1 ELSE q, places |-> places]

(* ------------------------- statsmodels OLS ----------------------------- *)
\* The p-values statsmodels may report for a coefficient.
PValues == { Rat(1, 16), Rat(3, 16), Rat(1, 1) }

\* sm.OLS(endog, exog).fit().params for exog rows [const |-> 1, Skill_Score |-> x]:
\* the least-squares coefficients, or the minimum-norm ones (pinv) when every
\* x is the same.  Both coefficients are given over one denominator.
OLSParams(endog, exog) ==
  LET n == Len(exog)
      xs == [i \in 1..n |-> exog[i].Skill_Score]
      sx == Sum(xs)
      sy == Sum(endog)
      sxx == Sum([i \in 1..n |-> xs[i] * xs[i]])
      sxy == Sum([i \in 1..n |-> xs[i] * endog[i]])
      dxx == n * sxx - sx * sx
      dxy == n * sxy - sx * sy
  IN IF dxx # 0
     THEN [const |-> Rat(sy * dxx - dxy * sx, n * dxx),
           Skill_Score |-> Rat(n * dxy, n * dxx)]
     ELSE [const |-> Rat(sy, n * (1 + xs[1] * xs[1])),
           Skill_Score |-> Rat(xs[1] * sy, n * (1 + xs[1] * xs[1]))]

ZeroModel ==
  [params |-> [const |-> Rat(0, 1), Skill_Score |-> Rat(0, 1)],
   pvalues |-> [const |-> Rat(0, 1), Skill_Score |-> Rat(0, 1)]]

(* ----------------------------- figures --------------------------------- *)
FigNames == { "fig_companies", "fig_skills", "fig_majors", "fig_heatmap", "fig_reg" }

NoFigure ==
  [chart |-> "", data |-> << >>, fields |-> << >>, texttemplate |-> "",
   traces |-> << >>]

NoRun ==
  [complete |-> FALSE, companies |-> << >>, job_titles |-> << >>,
   majors_options |-> << >>, companies_data |-> << >>, skillset_data |-> << >>,
   majors_data |-> << >>, causal_data |-> << >>]

(* ------------------------------ Init ----------------------------------- *)
\* The interpreter has imported the libraries: NumPy's generator was seeded
\* from the operating system, so its state is arbitrary.
Init ==
  /\ companies \in CompanyLists
  /\ \E nj \in JobCounts :
       /\ job_titles = SubSeq(ReferenceJobTitles, 1, nj)
       /\ majors_options = SubSeq(ReferenceMajorsOptions, 1, nj)
  /\ stream \in [0..(Period - 1) -> RawWords]
  /\ rng \in 0..(Period - 1)
  /\ pc = 1
  /\ error = 0
  /\ defined = {}
  /\ graduates = << >>
  /\ companies_data = << >>
  /\ skillset_records = << >>
  /\ skillset_data = << >>
  /\ majors_records = << >>
  /\ majors_data = << >>
  /\ loop = [j |-> 1, k |-> 1]
  /\ heatmap_data = << >>
  /\ skill_score = << >>
  /\ graduates_synthetic = << >>
  /\ causal_data = << >>
  /\ X = << >>
  /\ model = ZeroModel
  /\ reg_line = << >>
  /\ figs = [f \in FigNames |-> NoFigure]
  /\ rendered = << >>
  /\ prev = NoRun

(* ---------------------------- execution -------------------------------- *)
\* Every statement guarded by its own try/except: execution goes on past an
\* exception.
RunningPastError == pc \in 1..Len(Program)

\* A statement is executed while no exception has ended the run.
Running == error = 0 /\ pc \in 1..Len(Program)

At(op) == Running /\ Program[pc].op = op

Bound(names) == names \subseteq defined

Bind(names) == defined' = defined \cup names

\* What one Streamlit call hands to the presentation surface.
Element(call, arg, stmt, fig, body) ==
  [call |-> call, arg |-> arg, stmt |-> stmt, fig |-> fig, body |-> body]

\* st.set_page_config, st.title, st.markdown, st.header, st.subheader with a
\* literal argument: the call reaches the surface, nothing else changes.
Present(op) ==
  /\ At(op)
  /\ rendered' = Append(rendered, Element(op, Program[pc].arg, pc, NoFigure, << >>))
  /\ pc' = pc + 1
  /\ UNCHANGED << config, generator, error, defined, gen_vars, tables,
                  heatmap_data, fit_vars, figs, prev >>

SetPageConfig == Present("set_page_config")

Title == Present("title")

Markdown == Present("markdown")

Header == Present("header")

Subheader == Present("subheader")

\* The statement does not touch the generator (the seed call left out).
SeedSkipped ==
  /\ At("seed")
  /\ pc' = pc + 1
  /\ UNCHANGED << config, generator, error, defined, gen_vars, tables,
                  heatmap_data, fit_vars, figs, rendered, prev >>

\* np.random.seed(42), lines 25 and 112.
Seed ==
  /\ At("seed")
  /\ rng' = SeedState(SeedValue)
  /\ pc' = pc + 1
  /\ UNCHANGED << config, stream, error, defined, gen_vars, tables,
                  heatmap_data, fit_vars, figs, rendered, prev >>

\* graduates = np.random.randint(50, 200, size=len(companies))
DrawGraduates ==
  /\ At("graduates")
  /\ graduates' = [i \in 1..Len(companies) |->
                     randint(Words(rng, Len(companies))[i], 50, 200)]
  /\ rng' = Advanced(rng, Len(companies))
  /\ Bind({"graduates"})
  /\ pc' = pc + 1
  /\ UNCHANGED << config, stream, error, skillset_records, majors_records, loop,
                  skill_score, graduates_synthetic, tables, heatmap_data,
                  fit_vars, figs, rendered, prev >>

\* companies_data = pd.DataFrame({"Company": companies, "Graduates": graduates})
MakeCompaniesData ==
  /\ At("companies_data")
  /\ Bound({"graduates"})
  /\ companies_data' = [i \in 1..Len(companies) |->
                          [Company |-> companies[i], Graduates |-> graduates[i]]]
  /\ Bind({"companies_data"})
  /\ pc' = pc + 1
  /\ UNCHANGED << config, generator, error, gen_vars, skillset_data, majors_data,
                  causal_data, heatmap_data, fit_vars, figs, rendered, prev >>

\* The inner loop stops one item early.
NextCursorOffByOne(cur, lists) ==
  IF cur.k + 1 < Len(lists[cur.j].items)
  THEN [j |-> cur.j, k |-> cur.k + 1]
  ELSE [j |-> cur.j + 1, k |-> 1]

\* The cursor of "for job, xs in d.items(): for x in xs:" after one pass of
\* the body at cur.
NextCursor(cur, lists) ==
  IF cur.k < Len(lists[cur.j].items)
  THEN [j |-> cur.j, k |-> cur.k + 1]
  ELSE [j |-> cur.j + 1, k |-> 1]

\* skillset_records = []
InitSkillsetRecords ==
  /\ At("skillset_records")
  /\ skillset_records' = << >>
  /\ Bind({"skillset_records"})
  /\ pc' = pc + 1
  /\ UNCHANGED << config, generator, error, graduates, majors_records, loop,
                  skill_score, graduates_synthetic, tables, heatmap_data,
                  fit_vars, figs, rendered, prev >>

\* One pass of the body of the loop of lines 42-45.
SkillLoopBody ==
  /\ At("skill_loop")
  /\ Bound({"skillset_records"})
  /\ loop.j <= Len(job_titles)
  /\ LET job == job_titles[loop.j].job
         skill == job_titles[loop.j].items[loop.k]
         frequency == randint(Words(rng, 1)[1], 40, 150)
     IN skillset_records' =
          Append(skillset_records,
                 [JobTitle |-> job, Skill |-> skill, Frequency |-> frequency])
  /\ rng' = Advanced(rng, 1)
  /\ loop' = NextCursor(loop, job_titles)
  /\ UNCHANGED << config, stream, pc, error, defined, graduates, majors_records,
                  skill_score, graduates_synthetic, tables, heatmap_data,
                  fit_vars, figs, rendered, prev >>

SkillLoopExit ==
  /\ At("skill_loop")
  /\ loop.j > Len(job_titles)
  /\ loop' = [j |-> 1, k |-> 1]
  /\ pc' = pc + 1
  /\ UNCHANGED << config, generator, error, defined, graduates, skillset_records,
                  majors_records, skill_score, graduates_synthetic, tables,
                  heatmap_data, fit_vars, figs, rendered, prev >>

\* skillset_data = pd.DataFrame(skillset_records)
MakeSkillsetData ==
  /\ At("skillset_data")
  /\ Bound({"skillset_records"})
  /\ skillset_data' = skillset_records
  /\ Bind({"skillset_data"})
  /\ pc' = pc + 1
  /\ UNCHANGED << config, generator, error, gen_vars, companies_data, majors_data,
                  causal_data, heatmap_data, fit_vars, figs, rendered, prev >>

\* majors_records = []
InitMajorsRecords ==
  /\ At("majors_records")
  /\ majors_records' = << >>
  /\ Bind({"majors_records"})
  /\ pc' = pc + 1
  /\ UNCHANGED << config, generator, error, graduates, skillset_records, loop,
                  skill_score, graduates_synthetic, tables, heatmap_data,
                  fit_vars, figs, rendered, prev >>

\* One pass of the body of the loop of lines 58-61.
MajorLoopBody ==
  /\ At("major_loop")
  /\ Bound({"majors_records"})
  /\ loop.j <= Len(majors_options)
  /\ LET job == majors_options[loop.j].job
         major == majors_options[loop.j].items[loop.k]
         count == randint(Words(rng, 1)[1], 20, 100)
     IN majors_records' =
          Append(majors_records, [JobTitle |-> job, Major |-> major, Count |-> count])
  /\ rng' = Advanced(rng, 1)
  /\ loop' = NextCursor(loop, majors_options)
  /\ UNCHANGED << config, stream, pc, error, defined, graduates, skillset_records,
                  skill_score, graduates_synthetic, tables, heatmap_data,
                  fit_vars, figs, rendered, prev >>

MajorLoopExit ==
  /\ At("major_loop")
  /\ loop.j > Len(majors_options)
  /\ loop' = [j |-> 1, k |-> 1]
  /\ pc' = pc + 1
  /\ UNCHANGED << config, generator, error, defined, graduates, skillset_records,
                  majors_records, skill_score, graduates_synthetic, tables,
                  heatmap_data, fit_vars, figs, rendered, prev >>

\* majors_data = pd.DataFrame(majors_records)
MakeMajorsData ==
  /\ At("majors_data")
  /\ Bound({"majors_records"})
  /\ majors_data' = majors_records
  /\ Bind({"majors_data"})
  /\ pc' = pc + 1
  /\ UNCHANGED << config, generator, error, gen_vars, companies_data,
                  skillset_data, causal_data, heatmap_data, fit_vars, figs,
                  rendered, prev >>

(* ------------------------------ charts --------------------------------- *)
\* The table a px.<chart>(...) call reads, by the figure it builds.
FigureInput(name) ==
  CASE name = "fig_companies" -> "companies_data"
    [] name = "fig_skills" -> "skillset_data"
    [] name = "fig_majors" -> "majors_data"
    [] name = "fig_heatmap" -> "heatmap_data"
    [] name = "fig_reg" -> "causal_data"

\* px.bar / px.bar / px.sunburst / px.imshow / px.scatter of lines 70, 79, 86,
\* 93 and 131: the chart type, the table and the field mapping.
FigureOf(name) ==
  CASE name = "fig_companies" ->
         [NoFigure EXCEPT !.chart = "bar", !.data = companies_data,
                          !.fields = << "Company", "Graduates", "Graduates" >>]
    [] name = "fig_skills" ->
         [NoFigure EXCEPT !.chart = "bar", !.data = skillset_data,
                          !.fields = << "Job Title", "Frequency", "Skill" >>]
    [] name = "fig_majors" ->
         [NoFigure EXCEPT !.chart = "sunburst", !.data = majors_data,
                          !.fields = << "Job Title", "Major", "Count" >>]
    [] name = "fig_heatmap" ->
         [NoFigure EXCEPT !.chart = "imshow", !.data = heatmap_data,
                          !.fields = << "Job Title", "Skill", "Frequency" >>]
    [] name = "fig_reg" ->
         [NoFigure EXCEPT !.chart = "scatter", !.data = causal_data,
                          !.fields = << "Skill_Score", "Graduates" >>]

MakeFigure ==
  /\ At("figure")
  /\ Bound({FigureInput(Program[pc].arg)})
  /\ figs' = [figs EXCEPT ![Program[pc].arg] = FigureOf(Program[pc].arg)]
  /\ Bind({Program[pc].arg})
  /\ pc' = pc + 1
  /\ UNCHANGED << config, generator, error, gen_vars, tables, heatmap_data,
                  fit_vars, rendered, prev >>

\* fig_companies.update_traces(texttemplate='%{text}', textposition='outside')
UpdateTraces ==
  /\ At("update_traces")
  /\ Bound({Program[pc].arg})
  /\ figs' = [figs EXCEPT ![Program[pc].arg].texttemplate = "%{text}"]
  /\ pc' = pc + 1
  /\ UNCHANGED << config, generator, error, defined, gen_vars, tables,
                  heatmap_data, fit_vars, rendered, prev >>

\* st.plotly_chart(fig, use_container_width=True)
PlotlyChart ==
  /\ At("plotly_chart")
  /\ Bound({Program[pc].arg})
  /\ rendered' = Append(rendered,
                        Element("plotly_chart", Program[pc].arg, pc,
                                figs[Program[pc].arg], << >>))
  /\ pc' = pc + 1
  /\ UNCHANGED << config, generator, error, defined, gen_vars, tables,
                  heatmap_data, fit_vars, figs, prev >>

\* rows.pivot(index="Skill", columns="Job Title", values="Frequency").fillna(0):
\* a new table, one cell per (skill, job title), 0 where rows has no such row.
PivotTable(rows) ==
  LET skills == { rows[i].Skill : i \in DOMAIN rows }
      jobs == { rows[i].JobTitle : i \in DOMAIN rows }
      Hit(p) == { i \in DOMAIN rows : rows[i].Skill = p[1] /\ rows[i].JobTitle = p[2] }
  IN [p \in skills \X jobs |->
        IF Hit(p) = {} THEN 0 ELSE rows[CHOOSE i \in Hit(p) : TRUE].Frequency]

\* The fill value 0 is written into skillset_data's own Frequency column.
PivotInPlace ==
  /\ At("heatmap_data")
  /\ Bound({"skillset_data"})
  /\ heatmap_data' = PivotTable(skillset_data)
  /\ skillset_data' = [i \in DOMAIN skillset_data |->
                         [skillset_data[i] EXCEPT !.Frequency = 0]]
  /\ Bind({"heatmap_data"})
  /\ pc' = pc + 1
  /\ UNCHANGED << config, generator, error, gen_vars, companies_data, majors_data,
                  causal_data, fit_vars, figs, rendered, prev >>

\* heatmap_data = skillset_data.pivot(...).fillna(0)
Pivot ==
  /\ At("heatmap_data")
  /\ Bound({"skillset_data"})
  /\ heatmap_data' = PivotTable(skillset_data)
  /\ Bind({"heatmap_data"})
  /\ pc' = pc + 1
  /\ UNCHANGED << config, generator, error, gen_vars, tables, fit_vars, figs,
                  rendered, prev >>

(* ---------------------------- regression ------------------------------- *)
\* skill_score = np.random.uniform(20, 100, size=n_obs)
DrawSkillScore ==
  /\ At("skill_score")
  /\ skill_score' = [i \in 1..NObs |-> uniform(Words(rng, NObs)[i], 20, 100)]
  /\ rng' = Advanced(rng, NObs)
  /\ Bind({"skill_score"})
  /\ pc' = pc + 1
  /\ UNCHANGED << config, stream, error, graduates, skillset_records,
                  majors_records, loop, graduates_synthetic, tables, heatmap_data,
                  fit_vars, figs, rendered, prev >>

\* graduates_synthetic = 50 + 3 * skill_score + np.random.normal(0, 15, size=n_obs)
DrawGraduatesSynthetic ==
  /\ At("graduates_synthetic")
  /\ Bound({"skill_score"})
  /\ graduates_synthetic' =
       [i \in 1..NObs |->
          50 + 3 * skill_score[i] + normal(Words(rng, NObs)[i], 0, 15)]
  /\ rng' = Advanced(rng, NObs)
  /\ Bind({"graduates_synthetic"})
  /\ pc' = pc + 1
  /\ UNCHANGED << config, stream, error, graduates, skillset_records,
                  majors_records, loop, skill_score, tables, heatmap_data,
                  fit_vars, figs, rendered, prev >>

\* causal_data = pd.DataFrame({"Skill_Score": ..., "Graduates": ...})
MakeCausalData ==
  /\ At("causal_data")
  /\ Bound({"skill_score", "graduates_synthetic"})
  /\ causal_data' = [i \in 1..NObs |->
                       [Skill_Score |-> skill_score[i],
                        Graduates |-> graduates_synthetic[i]]]
  /\ Bind({"causal_data"})
  /\ pc' = pc + 1
  /\ UNCHANGED << config, generator, error, gen_vars, companies_data,
                  skillset_data, majors_data, heatmap_data, fit_vars, figs,
                  rendered, prev >>

\* X = sm.add_constant(causal_data["Skill_Score"]): a new table.
AddConstant ==
  /\ At("X")
  /\ Bound({"causal_data"})
  /\ X' = [i \in DOMAIN causal_data |->
             [const |-> 1, Skill_Score |-> causal_data[i].Skill_Score]]
  /\ Bind({"X"})
  /\ pc' = pc + 1
  /\ UNCHANGED << config, generator, error, gen_vars, tables, heatmap_data, model,
                  reg_line, figs, rendered, prev >>

\* model = sm.OLS(causal_data["Graduates"], X).fit()
Fit ==
  /\ At("model")
  /\ Bound({"causal_data", "X"})
  /\ \E p \in PValues :
       model' = [params |-> OLSParams([i \in DOMAIN causal_data |->
                                         causal_data[i].Graduates], X),
                 pvalues |-> [const |-> p, Skill_Score |-> p]]
  /\ Bind({"model"})
  /\ pc' = pc + 1
  /\ UNCHANGED << config, generator, error, gen_vars, tables, heatmap_data, X,
                  reg_line, figs, rendered, prev >>

\* st.text(model.summary().as_text())
Text ==
  /\ At("text")
  /\ Bound({"model"})
  /\ rendered' = Append(rendered,
                        Element("text", Program[pc].arg, pc, NoFigure,
                                << model.params.const, model.params.Skill_Score,
                                   model.pvalues.Skill_Score >>))
  /\ pc' = pc + 1
  /\ UNCHANGED << config, generator, error, defined, gen_vars, tables,
                  heatmap_data, fit_vars, figs, prev >>

\* The intercept left out of the fitted values.
FittedValuesSlopeOnly(params, scores) ==
  [i \in DOMAIN scores |-> RatMulInt(params.Skill_Score, scores[i])]

\* model.params["const"] + model.params["Skill_Score"] * scores, elementwise.
FittedValues(params, scores) ==
  [i \in DOMAIN scores |->
     RatAdd(params.const, RatMulInt(params.Skill_Score, scores[i]))]

\* The column causal_data["Skill_Score"].
ScoreColumn(rows) == [i \in DOMAIN rows |-> rows[i].Skill_Score]

\* reg_line = model.params["const"] + model.params["Skill_Score"] * causal_data["Skill_Score"]
RegLine ==
  /\ At("reg_line")
  /\ Bound({"model", "causal_data"})
  /\ reg_line' = FittedValues(model.params, ScoreColumn(causal_data))
  /\ Bind({"reg_line"})
  /\ pc' = pc + 1
  /\ UNCHANGED << config, generator, error, gen_vars, tables, heatmap_data, X,
                  model, figs, rendered, prev >>

\* The line trace through the points sorted by x ascending.
LineTraceSorted(xs, ys) ==
  LET n == Len(xs)
      order == CHOOSE f \in [1..n -> 1..n] :
                 /\ \A i, j \in 1..n : i # j => f[i] # f[j]
                 /\ \A i, j \in 1..n : i < j => xs[f[i]] <= xs[f[j]]
  IN [mode |-> "lines",
      points |-> [i \in 1..n |-> [x |-> xs[order[i]], y |-> ys[order[i]]]]]

\* px.line(x=xs, y=ys).data: one line trace through the points in the order
\* of the two columns.
LineTrace(xs, ys) ==
  [mode |-> "lines", points |-> [i \in DOMAIN xs |-> [x |-> xs[i], y |-> ys[i]]]]

\* fig_reg.add_traces(px.line(x=causal_data["Skill_Score"], y=reg_line, ...).data)
AddTraces ==
  /\ At("add_traces")
  /\ Bound({Program[pc].arg, "causal_data", "reg_line"})
  /\ figs' = [figs EXCEPT ![Program[pc].arg].traces =
                Append(@, LineTrace(ScoreColumn(causal_data), reg_line))]
  /\ pc' = pc + 1
  /\ UNCHANGED << config, generator, error, defined, gen_vars, tables,
                  heatmap_data, fit_vars, rendered, prev >>

\* coef filled with the intercept, model.params["const"].
RecommendationFieldsIntercept(m) ==
  << FormatFixed(m.params.const, 2),
     FormatFixed(m.pvalues.Skill_Score, 3),
     FormatFixed(m.params.const, 2) >>

\* The fields of the template of lines 143-154, in the order they occur:
\* {coef:.2f}, {pval:.3f}, {coef:.2f}, filled by
\* .format(coef=model.params["Skill_Score"], pval=model.pvalues["Skill_Score"]).
RecommendationFields(m) ==
  << FormatFixed(m.params.Skill_Score, 2),
     FormatFixed(m.pvalues.Skill_Score, 3),
     FormatFixed(m.params.Skill_Score, 2) >>

\* st.markdown("""...""".format(coef=..., pval=...))
Recommendation ==
  /\ At("recommendation")
  /\ Bound({"model"})
  /\ rendered' = Append(rendered,
                        Element("recommendation", Program[pc].arg, pc, NoFigure,
                                RecommendationFields(model)))
  /\ pc' = pc + 1
  /\ UNCHANGED << config, generator, error, defined, gen_vars, tables,
                  heatmap_data, fit_vars, figs, prev >>

(* ----------------------- failure and rerun ----------------------------- *)
\* A library call raises.  No statement of main.py is inside a try block, so
\* the exception ends the run at the failing statement.
Raise ==
  /\ Running
  /\ Program[pc].op \in LibraryOps
  /\ error' = pc
  /\ UNCHANGED << config, generator, pc, defined, gen_vars, tables, heatmap_data,
                  fit_vars, figs, rendered, prev >>

\* What a run that reached the end of the script leaves behind.
Snapshot ==
  [complete |-> TRUE, companies |-> companies, job_titles |-> job_titles,
   majors_options |-> majors_options, companies_data |-> companies_data,
   skillset_data |-> skillset_data, majors_data |-> majors_data,
   causal_data |-> causal_data]

\* A fresh module namespace: what every run of the script starts from.
FreshRun ==
  /\ pc' = 1
  /\ error' = 0
  /\ defined' = {}
  /\ graduates' = << >>
  /\ companies_data' = << >>
  /\ skillset_records' = << >>
  /\ skillset_data' = << >>
  /\ majors_records' = << >>
  /\ majors_data' = << >>
  /\ loop' = [j |-> 1, k |-> 1]
  /\ heatmap_data' = << >>
  /\ skill_score' = << >>
  /\ graduates_synthetic' = << >>
  /\ causal_data' = << >>
  /\ X' = << >>
  /\ model' = ZeroModel
  /\ reg_line' = << >>
  /\ figs' = [f \in FigNames |-> NoFigure]
  /\ rendered' = << >>

\* Streamlit runs the script again from the top, in a fresh namespace and in
\* the same process: np.random keeps its state.
Rerun ==
  /\ pc = Done \/ error # 0
  /\ prev' = IF pc = Done /\ error = 0 THEN Snapshot ELSE NoRun
  /\ FreshRun
  /\ UNCHANGED << config, generator >>

\* The script is run again after its category lists were edited.
EditAndRerun ==
  /\ pc = Done
  /\ error = 0
  /\ prev' = Snapshot
  /\ companies' \in CompanyLists
  /\ \E nj \in JobCounts :
       /\ job_titles' = SubSeq(ReferenceJobTitles, 1, nj)
       /\ majors_options' = SubSeq(ReferenceMajorsOptions, 1, nj)
  /\ FreshRun
  /\ UNCHANGED generator

Next ==
  \/ SetPageConfig \/ Title \/ Markdown \/ Header \/ Subheader
  \/ Seed \/ DrawGraduates \/ MakeCompaniesData
  \/ InitSkillsetRecords \/ SkillLoopBody \/ SkillLoopExit \/ MakeSkillsetData
  \/ InitMajorsRecords \/ MajorLoopBody \/ MajorLoopExit \/ MakeMajorsData
  \/ MakeFigure \/ UpdateTraces \/ PlotlyChart \/ Pivot
  \/ DrawSkillScore \/ DrawGraduatesSynthetic \/ MakeCausalData
  \/ AddConstant \/ Fit \/ Text \/ RegLine \/ AddTraces \/ Recommendation
  \/ Raise \/ Rerun \/ EditAndRerun

Spec == Init /\ [][Next]_vars

(* ======================== properties of main.py ======================== *)
Elements(call) == { rendered[i] : i \in { k \in DOMAIN rendered : rendered[k].call = call } }

SameLists ==
  /\ prev.companies = companies
  /\ prev.job_titles = job_titles
  /\ prev.majors_options = majors_options

\* C1: two runs of the script with the same seed and the same category lists
\* build the same four tables (employer, skill frequency, major count,
\* regression samples): same rows, same order, same values.
C1_SameSeedSameTables ==
  (pc = Done /\ error = 0 /\ prev.complete /\ SameLists) =>
    /\ companies_data = prev.companies_data
    /\ skillset_data = prev.skillset_data
    /\ majors_data = prev.majors_data
    /\ causal_data = prev.causal_data

\* A second run with the lists of the first has reached the end of the script.
C1_Witness ==
  /\ pc = Done
  /\ error = 0
  /\ prev.complete
  /\ SameLists
  /\ Len(causal_data) = NObs
  /\ Len(skillset_data) > 0

\* C2: every Graduates is an integer of [50, 200), every Frequency of
\* [40, 150), every Count of [20, 100); 200, 150 and 100 are never drawn.
C2_Ranges ==
  /\ \A i \in DOMAIN graduates : graduates[i] \in 50..199
  /\ \A i \in DOMAIN companies_data : companies_data[i].Graduates \in 50..199
  /\ \A i \in DOMAIN skillset_records : skillset_records[i].Frequency \in 40..149
  /\ \A i \in DOMAIN skillset_data : skillset_data[i].Frequency \in 40..149
  /\ \A i \in DOMAIN majors_records : majors_records[i].Count \in 20..99
  /\ \A i \in DOMAIN majors_data : majors_data[i].Count \in 20..99

\* All three tables are built and each holds its least and its greatest value.
C2_Witness ==
  /\ "majors_data" \in defined
  /\ \E i, j \in DOMAIN companies_data :
       companies_data[i].Graduates = 50 /\ companies_data[j].Graduates = 199
  /\ \E i, j \in DOMAIN skillset_data :
       skillset_data[i].Frequency = 40 /\ skillset_data[j].Frequency = 149
  /\ \E i, j \in DOMAIN majors_data :
       majors_data[i].Count = 20 /\ majors_data[j].Count = 99

\* The (job title, item) pairs of a job title -> list map.
Pairs(lists) ==
  UNION { { << lists[j].job, lists[j].items[k] >> : k \in DOMAIN lists[j].items } :
            j \in DOMAIN lists }

SumOfLengths(lists) == Sum([j \in DOMAIN lists |-> Len(lists[j].items)])

\* C3: the skill-frequency table holds exactly one record for every
\* (job title, skill) pair of the map and no other, the major-count table
\* exactly one for every (job title, major) pair and no other; the row counts
\* are the sums of the list lengths, 25 and 16 for the lists of the source.
C3_OneRecordPerPair ==
  /\ "skillset_data" \in defined =>
       /\ { << skillset_data[i].JobTitle, skillset_data[i].Skill >> :
              i \in DOMAIN skillset_data } = Pairs(job_titles)
       /\ \A i, j \in DOMAIN skillset_data :
            (skillset_data[i].JobTitle = skillset_data[j].JobTitle
               /\ skillset_data[i].Skill = skillset_data[j].Skill) => i = j
       /\ Len(skillset_data) = SumOfLengths(job_titles)
  /\ "majors_data" \in defined =>
       /\ { << majors_data[i].JobTitle, majors_data[i].Major >> :
              i \in DOMAIN majors_data } = Pairs(majors_options)
       /\ \A i, j \in DOMAIN majors_data :
            (majors_data[i].JobTitle = majors_data[j].JobTitle
               /\ majors_data[i].Major = majors_data[j].Major) => i = j
       /\ Len(majors_data) = SumOfLengths(majors_options)
  /\ SumOfLengths(ReferenceJobTitles) = 25
  /\ SumOfLengths(ReferenceMajorsOptions) = 16

\* Both tables are built from maps of more than one job title, with lists of
\* different lengths.
C3_Witness ==
  /\ "skillset_data" \in defined
  /\ "majors_data" \in defined
  /\ Len(job_titles) > 1
  /\ Len(majors_options[1].items) # Len(majors_options[2].items)
  /\ Len(majors_data) = 7

SortedByX(points) ==
  \A i, j \in DOMAIN points : i < j => points[i].x <= points[j].x

RegressionCharts ==
  { e \in Elements("plotly_chart") : e.arg = "fig_reg" }

\* C4 as claimed: the fitted line handed to the presentation surface is sorted
\* by x ascending.
C4_LineSortedByX ==
  \A e \in RegressionCharts :
    \A t \in DOMAIN e.fig.traces : SortedByX(e.fig.traces[t].points)

\* C4, amended: the fitted line handed to the presentation surface holds one
\* (x, y) pair per regression sample, in the order of the samples: its i-th
\* pair is the i-th skill score and the i-th fitted value.
C4_LineInSampleOrder ==
  \A e \in RegressionCharts :
    /\ Len(e.fig.traces) = 1
    /\ Len(e.fig.traces[1].points) = Len(causal_data)
    /\ \A i \in DOMAIN causal_data :
         /\ e.fig.traces[1].points[i].x = causal_data[i].Skill_Score
         /\ e.fig.traces[1].points[i].y = reg_line[i]

\* The regression chart was presented and its line runs from a larger score
\* to a smaller one.
C4_Witness ==
  \E e \in RegressionCharts :
    /\ Len(e.fig.traces) = 1
    /\ \E i, j \in DOMAIN e.fig.traces[1].points :
         i < j /\ e.fig.traces[1].points[i].x > e.fig.traces[1].points[j].x

CoreNames == { "companies_data", "skillset_data", "majors_data", "causal_data", "model" }

\* C5 as claimed: no presentation call is made before the four tables are
\* generated and the model is fitted.
C5_CoreBeforePresentation == rendered # << >> => CoreNames \subseteq defined

TableOf(name) ==
  CASE name = "fig_companies" -> companies_data
    [] name = "fig_skills" -> skillset_data
    [] name = "fig_majors" -> majors_data
    [] name = "fig_heatmap" -> heatmap_data
    [] name = "fig_reg" -> causal_data

\* C5, amended: every presentation call is made after the work it presents
\* has completed.  A chart is presented after its table was generated, and as
\* the finished figure; the regression chart after the fit, with the fitted
\* line; the regression summary and the recommendation after the fit.  The
\* title, the introduction and the charts of sections 1-4 are presented
\* before the regression samples are drawn.
C5_PresentedAfterItsWork ==
  /\ \A e \in Elements("plotly_chart") :
       /\ { e.arg, FigureInput(e.arg) } \subseteq defined
       /\ e.fig = figs[e.arg]
       /\ e.fig.data = TableOf(e.arg)
       /\ e.arg = "fig_companies" => e.fig.texttemplate = "%{text}"
       /\ e.arg = "fig_reg" =>
            /\ { "model", "reg_line" } \subseteq defined
            /\ Len(e.fig.traces) = 1
  /\ \A e \in Elements("text") :
       /\ "model" \in defined
       /\ e.body = << model.params.const, model.params.Skill_Score,
                      model.pvalues.Skill_Score >>
  /\ \A e \in Elements("recommendation") : "model" \in defined

\* The first chart is on the page and no regression sample has been drawn.
C5_Witness ==
  /\ \E e \in Elements("plotly_chart") : e.arg = "fig_companies"
  /\ "skill_score" \notin defined
  /\ "model" \notin defined

PresentationStatements ==
  { i \in DOMAIN Program : Program[i].op \in PresentationOps }

Presented(i) == \E k \in DOMAIN rendered : rendered[k].stmt = i

\* C6 as claimed: when a section fails, every other section is still
\* rendered, the sections after the failing one included.
C6_OtherSectionsRendered ==
  error # 0 =>
    \A i \in PresentationStatements :
      SectionOf(i) # SectionOf(error) => Presented(i)

\* C6, amended: when a section fails, report generation stops at the failing
\* statement with that statement's error.  What was presented before it stays
\* presented; the failing statement and everything after it, the later
\* sections included, is not presented.
C6_StopsAtFailure ==
  error # 0 =>
    /\ pc = error
    /\ \A i \in PresentationStatements : Presented(i) <=> i < error
    /\ \A k \in DOMAIN rendered : SectionOf(rendered[k].stmt) <= SectionOf(error)

\* A chart of a section that is not the last has failed.
C6_Witness ==
  /\ error # 0
  /\ Program[error].op = "plotly_chart"
  /\ SectionOf(error) = 2
  /\ Len(rendered) > 0

RatEq(a, b) == a.d = b.d /\ a.n = b.n

\* C7: the fitted-value sequence has one element per regression sample, its
\* i-th element is intercept + slope * (i-th skill score), and when the slope
\* is positive a sample with a larger score has a strictly larger fitted value.
C7_FittedValues ==
  "reg_line" \in defined =>
    /\ Len(reg_line) = NObs
    /\ Len(reg_line) = Len(causal_data)
    /\ \A i \in DOMAIN causal_data :
         RatEq(reg_line[i],
               RatAdd(model.params.const,
                      RatMulInt(model.params.Skill_Score, causal_data[i].Skill_Score)))
    /\ RatPositive(model.params.Skill_Score) =>
         \A i, j \in DOMAIN causal_data :
           causal_data[i].Skill_Score < causal_data[j].Skill_Score =>
             RatLess(reg_line[i], reg_line[j])

\* The fitted values exist, the slope is positive and two scores differ.
C7_Witness ==
  /\ "reg_line" \in defined
  /\ RatPositive(model.params.Skill_Score)
  /\ model.params.const.n # 0
  /\ \E i, j \in DOMAIN causal_data :
       causal_data[i].Skill_Score < causal_data[j].Skill_Score

\* C8: within a run, once a table or the fitted model exists no later step
\* changes it.
C8_WriteOnce ==
  [][ defined' # {} =>
        /\ "companies_data" \in defined => companies_data' = companies_data
        /\ "skillset_data" \in defined => skillset_data' = skillset_data
        /\ "majors_data" \in defined => majors_data' = majors_data
        /\ "causal_data" \in defined => causal_data' = causal_data
        /\ "model" \in defined => model' = model ]_vars

\* A run has built every table, pivoted, fitted, derived the line and
\* presented its last element.
C8_Witness ==
  /\ pc = Done
  /\ error = 0
  /\ { "heatmap_data", "X", "model", "reg_line" } \subseteq defined
  /\ Len(skillset_data) > 0
  /\ Len(causal_data) = NObs

\* text is value rounded to the nearest multiple of 10^-places, ties to even.
IsRounding(text, value, places) ==
  LET diff == value.n * Pow10(places) - text.digits * value.d
      dist == IF diff < 0 THEN 0 - diff ELSE diff
  IN /\ text.places = places
     /\ 2 * dist <= value.d
     /\ 2 * dist = value.d => text.digits % 2 = 0

\* C9: the recommendation shows the fitted slope rounded to exactly two
\* decimals and its p-value rounded to exactly three; the two occurrences of
\* the slope show the same text.
C9_RecommendationRounding ==
  \A e \in Elements("recommendation") :
    /\ Len(e.body) = 3
    /\ IsRounding(e.body[1], model.params.Skill_Score, 2)
    /\ IsRounding(e.body[2], model.pvalues.Skill_Score, 3)
    /\ e.body[3] = e.body[1]

\* The recommendation was presented for a slope and a p-value that had to be
\* rounded, and that differ from the intercept.
C9_Witness ==
  \E e \in Elements("recommendation") :
    /\ (model.params.Skill_Score.n * 100) % model.params.Skill_Score.d # 0
    /\ (model.pvalues.Skill_Score.n * 1000) % model.pvalues.Skill_Score.d # 0
    /\ e.body[1].digits # e.body[2].digits

\* The raw word of the i-th variate drawn after np.random.seed(42).
AfterSeed(i) == stream[(SeedState(SeedValue) + i - 1) % Period]

\* C10: the regression samples are the first 2 * n_obs variates after the
\* seed whatever the category lists are, so a run with other lists repeats
\* them; the skill frequencies and major counts are the variates that follow
\* the len(companies) employer draws, so they move with the employer list.
C10_SamplesIgnoreEarlierDraws ==
  /\ "causal_data" \in defined =>
       /\ Len(causal_data) = NObs
       /\ \A i \in DOMAIN causal_data :
            /\ causal_data[i].Skill_Score = uniform(AfterSeed(i), 20, 100)
            /\ causal_data[i].Graduates =
                 50 + 3 * causal_data[i].Skill_Score
                    + normal(AfterSeed(NObs + i), 0, 15)
  /\ (pc = Done /\ error = 0 /\ prev.complete) => causal_data = prev.causal_data
  /\ "skillset_data" \in defined =>
       \A k \in DOMAIN skillset_data :
         skillset_data[k].Frequency =
           randint(AfterSeed(Len(companies) + k), 40, 150)
  /\ "majors_data" \in defined =>
       \A k \in DOMAIN majors_data :
         majors_data[k].Count =
           randint(AfterSeed(Len(companies) + Len(skillset_data) + k), 20, 100)

\* Two runs that differ in the employer list alone: the same regression
\* samples, other skill frequencies and major counts.
C10_Witness ==
  /\ pc = Done
  /\ error = 0
  /\ prev.complete
  /\ Len(prev.companies) # Len(companies)
  /\ prev.job_titles = job_titles
  /\ prev.majors_options = majors_options
  /\ causal_data = prev.causal_data
  /\ skillset_data # prev.skillset_data
  /\ majors_data # prev.majors_data
====
